---- MODULE Spec2Model ----
(***************************************************************************)
(* The notebook project.ipynb, executed top to bottom by one kernel.       *)
(* A state is the kernel after some code cells have run: the names bound,  *)
(* the objects they refer to, the files under models/, the calls made so   *)
(* far.  One action per code cell.  The data files under data/ and the     *)
(* code the learner types into the "# your code ..." places are the        *)
(* inputs: they are chosen in Init and never change.                       *)
(*                                                                         *)
(* Text is modelled as a sequence of one-character strings where the code  *)
(* looks inside it (variable names, drug IDs); a value of a DataFrame cell *)
(* is modelled by its printed form ("m", "True", "NaN", "0", "-1").        *)
(***************************************************************************)
EXTENDS Integers, Sequences, FiniteSets, TLC

\* ---------------------------------------------------------------- bounds
\* Most variables (columns) of one modality's file.
MaxVars == 2
\* Most rows of cll_metadata.csv when its values are enumerated.
MetaRows == 1
\* Most rows of cll_gene_ids.csv when the table is enumerated.
GeneRows == 2
\* Most rows of drugs.txt when the table is enumerated.
DrugRows == 2
\* Most rows of the metadata index when the index is enumerated.
ObsRows == 3
\* Most observations of the transcriptome file when they are enumerated.
MaxObs == 2
\* Most factors the training drops as inactive when that is enumerated.
MaxDropped == 2

SeqsUpTo(U, n) == UNION {[1..k -> U] : k \in 0..n}

Range(s) == {s[i] : i \in 1..Len(s)}

\* ------------------------------------------------------------------ text
\* v in k (Python's substring test on str)
Contains(k, v) ==
    \E i \in 1..(Len(k) - Len(v) + 1) : SubSeq(k, i, i + Len(v) - 1) = v

\* k.replace(v, r): every non-overlapping occurrence of v, left to right
RECURSIVE StrReplace(_, _, _)
StrReplace(k, v, r) ==
    IF Len(v) = 0 \/ Len(k) < Len(v) THEN k
    ELSE IF SubSeq(k, 1, Len(v)) = v
         THEN r \o StrReplace(SubSeq(k, Len(v) + 1, Len(k)), v, r)
         ELSE <<k[1]>> \o StrReplace(Tail(k), v, r)

\* (mutant) the name is kept as it is
FormatMNone(x) == x

\* f"m_{x}"
MPrefix == <<"m", "_">>

FormatM(x) == MPrefix \o x

\* ----------------------------------------------------------- the notebook
\* (mutant) the first load placed before the training cell
OrderLoadFirst ==
    << "imports", "pbmc", "ex_pbmc", "read_mrna", "make_adata",
       "ex_anndata", "metadata", "gene_symbols", "mutations",
       "methylation", "drugs", "combine", "ex_explore", "load_model",
       "train", "plot_data_overview", "plot_r2",
       "plot_factors_correlation", "ex_second_model",
       "load_model_again", "factor_scores_df" >>

\* The code cells in the order of the file (markdown cells hold no code).
Order == << "imports", "pbmc", "ex_pbmc", "read_mrna", "make_adata",
            "ex_anndata", "metadata", "gene_symbols", "mutations",
            "methylation", "drugs", "combine", "ex_explore", "train",
            "load_model", "plot_data_overview", "plot_r2",
            "plot_factors_correlation", "ex_second_model",
            "load_model_again", "factor_scores_df" >>

Index(c) == CHOOSE i \in 1..Len(Order) : Order[i] = c

\* (mutant) the training call writes under another file name
TrainOutfileOther == "models/cll_model.hdf5"

\* outfile="models/cll.hdf5" of the training call
TrainOutfile == "models/cll.hdf5"
\* mfx.mofa_model("models/cll.hdf5"), first load
LoadPath == "models/cll.hdf5"
\* mfx.mofa_model("models/cll.hdf5"), second load
ReloadPath == "models/cll.hdf5"
\* a different name for the second model (exercise)
OtherPath == "models/cll2.hdf5"
Paths == {TrainOutfile, LoadPath, ReloadPath, OtherPath}

\* n_factors=15
NFactors == 15

Modalities == <<"mrna", "methylation", "mutations", "drugs">>

\* The names the comments of the pre-written cells tell the learner to use.
CommentNames ==
    [metadata |-> "metadata_df", mrna |-> "adata_mrna",
     mutations |-> "adata_mutations", drugs |-> "adata_drugs"]

\* The names the statements of the pre-written cells read.
CodeNames ==
    [metadata |-> "metadata_df", mrna |-> "mrna_adata",
     mutations |-> "mutations_adata", drugs |-> "drugs_adata"]

\* The name the combine instructions assume for the metadata DataFrame.
CombineMetadataName == "metadata"

NoArtifact == [run |-> 0, n_factors |-> 0, cells |-> <<>>]

\* no DataFrame of factor scores built yet
NoFrame == [index |-> <<>>, columns |-> <<>>, rows |-> 0, cols |-> 0]

VARIABLES
    data,         \* the files under data/ (input, constant)
    learner,      \* what the learner types into the exercises (input, constant)
    fs,           \* the files under models/: path -> artifact
    pc,           \* index in Order of the next code cell
    status,       \* "ok", or the exception that stopped the run
    ns,           \* the names bound in the kernel
    metadata_df,  \* the metadata DataFrame (rows: idx, row)
    var_names,    \* modality -> .var_names of its AnnData
    cols,         \* the list named cols
    mdata,        \* the MuData object: obs_names, obs
    model,        \* the artifact the name model refers to
    factor_scores,\* shape of model.get_factors()
    factor_scores_df, \* the DataFrame of factor scores: index, columns, shape
    runs,         \* number of completed training calls
    log           \* the library calls made on the model file, in order

vars == <<data, learner, fs, pc, status, ns, metadata_df, var_names, cols,
          mdata, model, factor_scores, factor_scores_df, runs, log>>

At(c) == pc <= Len(Order) /\ Order[pc] = c /\ status = "ok"
Past(c) == pc > Index(c)

\* --------------------------------------------------------------- pandas
\* DataFrame.rename(columns={old: new}): a label that is absent is ignored
RenameColumn(df, old, new) ==
    [i \in 1..Len(df) |->
        [idx |-> df[i].idx,
         row |-> IF old \in DOMAIN df[i].row
                 THEN [c \in (DOMAIN df[i].row \ {old}) \cup {new} |->
                          IF c = new THEN df[i].row[old] ELSE df[i].row[c]]
                 ELSE df[i].row]]

\* DataFrame.replace({col: mapping}): values of col that are keys of mapping
ReplaceIn(df, col, mapping) ==
    [i \in 1..Len(df) |->
        [idx |-> df[i].idx,
         row |-> [c \in DOMAIN df[i].row |->
                    IF c = col /\ df[i].row[c] \in DOMAIN mapping
                    THEN mapping[df[i].row[c]] ELSE df[i].row[c]]]]

\* DataFrame.fillna(v): every missing value of every column
FillNa(df, v) ==
    [i \in 1..Len(df) |->
        [idx |-> df[i].idx,
         row |-> [c \in DOMAIN df[i].row |->
                    IF df[i].row[c] = "NaN" THEN v ELSE df[i].row[c]]]]

\* (mutant) missing values filled with 0
MissingValueZero == "0"

SexMap == [m |-> "0", f |-> "1"]
DiedMap == [False |-> "0", True |-> "1"]
IghvMap == [U |-> "0", M |-> "1"]
MissingValue == "-1"

\* the four in-place calls of the metadata cell, in order
ConvertMetadata(df) ==
    FillNa(
        ReplaceIn(
            ReplaceIn(
                ReplaceIn(RenameColumn(df, "Gender", "Sex"), "Sex", SexMap),
                "died", DiedMap),
            "IGHV", IghvMap),
        MissingValue)

\* rows of df whose index label equals label, in the order of df
RowsOf(df, label) == SelectSeq(df, LAMBDA r : r.idx = label)

\* (mutant) rows taken by position, not by label
LocByPosition(df, labels) == SubSeq(df, 1, Len(labels))

\* df.loc[labels]: for each label in order, all rows carrying it
RECURSIVE Loc(_, _)
Loc(df, labels) ==
    IF labels = <<>> THEN <<>>
    ELSE RowsOf(df, Head(labels)) \o Loc(df, Tail(labels))

LocKeyError(df, labels) ==
    \E i \in 1..Len(labels) : RowsOf(df, labels[i]) = <<>>

\* -------------------------------------------------------------- anndata
\* the check of the var_names setter: one name per variable
VarNamesLengthError(old, new) == Len(new) # Len(old)

\* ------------------------------------------------------- gene symbols
\* gene_ids.loc[gene_ids["GENEID"] == gene, "SYMBOL"]
SymbolsOf(gene_ids, gene) ==
    SelectSeq(gene_ids, LAMBDA r : r.GENEID = gene)

\* (mutant) only an empty selection raises
ItemErrorOnlyEmpty(sel) == Len(sel) = 0

\* Series.item() raises unless the selection holds exactly one value
ItemError(sel) == Len(sel) # 1

GeneLookupError(gene_ids, names) ==
    \E i \in 1..Len(names) : ItemError(SymbolsOf(gene_ids, names[i]))

\* [gene_ids.loc[...].item() for gene in cols]
GeneSymbols(gene_ids, names) ==
    [i \in 1..Len(names) |-> SymbolsOf(gene_ids, names[i])[1].SYMBOL]

\* ----------------------------------------------------------- mutations
\* [f"m_{x}" for x in mutations_adata.var_names]
PrefixAll(names) == [i \in 1..Len(names) |-> FormatM(names[i])]

\* --------------------------------------------------------------- drugs
\* the keys of drug_names["name"].to_dict() that are substrings of k,
\* in the order of the file
MatchingIds(table, k) == SelectSeq(table, LAMBDA r : Contains(k, r.id))

\* (mutant) the variable name is replaced by the drug name alone
RenameDrugNameOnly(table, k) == MatchingIds(table, k)[1].name

\* the inner loop: the first key v with v in k, then break
RenameDrug(table, k) ==
    StrReplace(k, MatchingIds(table, k)[1].id, MatchingIds(table, k)[1].name)

\* the outer loop: nothing is appended for a k no key is in
RECURSIVE DrugCols(_, _)
DrugCols(table, names) ==
    IF names = <<>> THEN <<>>
    ELSE (IF MatchingIds(table, Head(names)) = <<>> THEN <<>>
          ELSE <<RenameDrug(table, Head(names))>>)
         \o DrugCols(table, Tail(names))

\* -------------------------------------------------------------- mudata
RECURSIVE AppendNew(_, _)
AppendNew(acc, s) ==
    IF s = <<>> THEN acc
    ELSE AppendNew(IF Head(s) \in Range(acc) THEN acc ELSE Append(acc, Head(s)),
                   Tail(s))

\* md.MuData(modality_dict).obs_names: the union of the modalities' samples
UnionObs(obs) ==
    AppendNew(AppendNew(AppendNew(AppendNew(<<>>, obs.mrna), obs.methylation),
                        obs.mutations), obs.drugs)

\* the check of the obs setter: one row per observation
ObsLengthError(obs_names, rows) == Len(rows) # Len(obs_names)

\* ---------------------------------------------------------- model files
\* mu.tl.mofa(..., outfile=path): the artifact written by training run n
Trained(n, k, cells) == [run |-> n, n_factors |-> k, cells |-> cells]

\* (mutant) the outfile argument is ignored
WriteFileFixed(f, path, art) == [f EXCEPT !["models/cll.hdf5"] = art]

WriteFile(f, path, art) == [f EXCEPT ![path] = art]

\* model.get_factors(): one row per sample of the model, one column per
\* factor the training kept (inactive factors are dropped)
GetFactors(art, dropped) ==
    [rows |-> Len(art.cells),
     cols |-> IF art.n_factors > dropped THEN art.n_factors - dropped ELSE 0]

\* model.get_cells()["cell"].values
GetCells(art) == art.cells

\* str(i) inside the f-string: the decimal digits of i
DigitChars == <<"0", "1", "2", "3", "4", "5", "6", "7", "8", "9">>
RECURSIVE ToStr(_)
ToStr(n) ==
    IF n < 10 THEN <<DigitChars[n + 1]>>
    ELSE ToStr(n \div 10) \o <<DigitChars[(n % 10) + 1]>>

\* f"Factor {i}"
FactorWord == <<"F", "a", "c", "t", "o", "r", " ">>
FactorLabel(i) == FactorWord \o ToStr(i)

\* (mutant) range(0, k): the labels start at Factor 0
FactorNumbersFromZero(k) == [i \in 1..k |-> i - 1]

\* range(1, factor_scores.shape[1]+1)
FactorNumbers(k) == [i \in 1..k |-> i]

\* [f"Factor {i}" for i in range(1, factor_scores.shape[1]+1)]
FactorColumns(k) ==
    [i \in 1..Len(FactorNumbers(k)) |-> FactorLabel(FactorNumbers(k)[i])]

\* pd.DataFrame(values, index=..., columns=...) raises when the labels do
\* not match the shape of the values
FrameShapeError(shape, index, columns) ==
    Len(index) # shape.rows \/ Len(columns) # shape.cols

\* mfx.mofa_model(path) raises when no file is at path
OpenError(f, path) == f[path] = NoArtifact

Call(op, path, cell) == [op |-> op, path |-> path, cell |-> cell]

\* -------------------------------------------------------------- inputs
\* ENSEMBL gene IDs, gene symbols, mutation names, drug IDs and drug names
\* of the enumerated files (short stand-ins for the real ones).
E1 == <<"E", "1">>
E2 == <<"E", "2">>
E3 == <<"E", "3">>
SymA == <<"a">>
SymB == <<"b">>
SymMA == <<"m", "_", "a">>
D1 == <<"D", "1">>
D10 == <<"D", "1", "0">>
D2 == <<"D", "2">>
DrugX == <<"x">>
DrugY == <<"y">>
Conc == <<"_", "1">>

GeneIdSet == {E1, E2}
SymbolSet == {SymA, SymB, SymMA}
MutationSet == {SymA, SymB, SymMA}
DrugIdSet == {D1, D10, D2}
DrugNameSet == {DrugX, DrugY}
\* <ID>_<concentration>, and one name that holds an ID twice
DrugVarSet == {D1 \o Conc, D10 \o Conc, D2 \o Conc, D1 \o D1}
SampleSet == {"s1", "s2", "s3"}

GeneRow(g, y) == [GENEID |-> g, SYMBOL |-> y]
DrugRow(d, n) == [id |-> d, name |-> n]
MetaRow(s, g, d, i, a) ==
    [idx |-> s, row |-> [Gender |-> g, died |-> d, IGHV |-> i, Age4Main |-> a]]

DefaultGenes == <<GeneRow(E1, SymA), GeneRow(E2, SymB), GeneRow(E3, SymMA)>>
DefaultDrugs == <<DrugRow(D1, DrugX), DrugRow(D2, DrugY)>>
DefaultMeta ==
    << MetaRow("s1", "m", "False", "U", "70"),
       MetaRow("s2", "f", "True", "NaN", "NaN"),
       MetaRow("s3", "NaN", "NaN", "M", "55") >>
DefaultObs ==
    [mrna |-> <<"s1", "s2">>, methylation |-> <<"s1">>,
     mutations |-> <<"s2", "s1">>, drugs |-> <<"s1">>]
StaleArtifact == [run |-> 0, n_factors |-> NFactors, cells |-> <<"s1">>]

DefaultData ==
    [meta |-> DefaultMeta,
     gene_ids |-> DefaultGenes,
     drugs_txt |-> DefaultDrugs,
     mrna_var |-> <<E1, E2>>,
     mut_var |-> <<SymA, SymB>>,
     meth_var |-> << <<"c", "g">> >>,
     drug_var |-> <<D1 \o Conc, D2 \o Conc>>,
     obs |-> DefaultObs,
     fs0 |-> NoArtifact,
     dropped |-> 0]

\* the learner who names every object the way the statements read it,
\* builds mdata and saves the second model under a different name
CodeLearner ==
    [names |-> CodeNames, combine_metadata |-> "metadata_df", mdata |-> TRUE,
     second |-> OtherPath, second_factors |-> NFactors + 5]

NameChoices ==
    {[metadata |-> a, mrna |-> b, mutations |-> c, drugs |-> d] :
        a \in {CommentNames.metadata, CombineMetadataName},
        b \in {CommentNames.mrna, CodeNames.mrna},
        c \in {CommentNames.mutations, CodeNames.mutations},
        d \in {CommentNames.drugs, CodeNames.drugs}}

\* every learner of the model: the name of each object is the comment's or
\* the statements', mdata is built or not, the second model is skipped,
\* saved over the first or saved under a different name
Learners ==
    {[names |-> n, combine_metadata |-> c, mdata |-> b,
      second |-> p, second_factors |-> k] :
        n \in NameChoices, c \in {CommentNames.metadata, CombineMetadataName},
        b \in BOOLEAN,
        p \in {"none", TrainOutfile, OtherPath},
        k \in {NFactors - 5, NFactors + 5}}

\* files that make each exception of the pre-written cells happen
ControlData ==
    {[DefaultData EXCEPT !.gene_ids = g, !.drugs_txt = t, !.meta = m,
                         !.fs0 = f] :
        g \in {DefaultGenes, <<GeneRow(E1, SymA)>>,
               <<GeneRow(E1, SymA), GeneRow(E2, SymB), GeneRow(E1, SymB)>>},
        t \in {DefaultDrugs, <<DrugRow(D1, DrugX)>>},
        m \in {DefaultMeta, SubSeq(DefaultMeta, 1, 1),
               DefaultMeta \o SubSeq(DefaultMeta, 1, 1)},
        f \in {NoArtifact, StaleArtifact}}

InitWith(D, L) ==
    /\ data \in D
    /\ learner \in L
    /\ fs = [p \in Paths |-> IF p = TrainOutfile THEN data.fs0 ELSE NoArtifact]
    /\ pc = 1
    /\ status = "ok"
    /\ ns = {}
    /\ metadata_df = <<>>
    /\ var_names = [mrna |-> <<>>, methylation |-> <<>>, mutations |-> <<>>,
                    drugs |-> <<>>]
    /\ cols = <<>>
    /\ mdata = [obs_names |-> <<>>, obs |-> <<>>]
    /\ model = NoArtifact
    /\ factor_scores = [rows |-> 0, cols |-> 0]
    /\ factor_scores_df = NoFrame
    /\ runs = 0
    /\ log = <<>>

Init == InitWith(ControlData, Learners)

\* --------------------------------------------------------------- cells
Advance == pc' = pc + 1 /\ status' = "ok"
\* (mutant) the exception is swallowed and the run goes on
RaiseSwallowed(e) == pc' = pc + 1 /\ status' = "ok"

\* an exception ends the cell and the run: no cell has a try statement
Raise(e) == pc' = pc /\ status' = e

ModuleAliases ==
    {"os", "np", "pd", "ad", "md", "mu", "mfx", "sc", "plt", "sns", "dc"}

Imports ==
    /\ At("imports")
    /\ ns' = ns \cup ModuleAliases
    /\ Advance
    /\ UNCHANGED <<data, learner, fs, metadata_df, var_names, cols, mdata,
                   model, factor_scores, factor_scores_df, runs, log>>

\* cells that bind one name and touch nothing the later cells read
BindCells == [pbmc |-> "adata", read_mrna |-> "data", make_adata |-> "adata"]

Bind(c) ==
    /\ At(c)
    /\ ns' = ns \cup {BindCells[c]}
    /\ Advance
    /\ UNCHANGED <<data, learner, fs, metadata_df, var_names, cols, mdata,
                   model, factor_scores, factor_scores_df, runs, log>>

\* exercise cells whose code the later cells do not depend on
FreeExercises == {"ex_pbmc", "ex_anndata", "ex_explore"}

Exercise(c) ==
    /\ At(c)
    /\ Advance
    /\ UNCHANGED <<data, learner, fs, ns, metadata_df, var_names, cols, mdata,
                   model, factor_scores, factor_scores_df, runs, log>>

\* the learner loads cll_metadata.csv; then the four in-place conversions
Metadata ==
    /\ At("metadata")
    /\ ns' = ns \cup {learner.names.metadata}
    /\ IF "metadata_df" \notin ns'
       THEN metadata_df' = data.meta /\ Raise("NameError")
       ELSE metadata_df' = ConvertMetadata(data.meta) /\ Advance
    /\ UNCHANGED <<data, learner, fs, var_names, cols, mdata, model,
                   factor_scores, factor_scores_df, runs, log>>

\* the learner loads cll_mrna.csv; then ENSEMBL IDs are looked up
GeneSymbolsCell ==
    /\ At("gene_symbols")
    /\ LET loaded == [var_names EXCEPT !.mrna = data.mrna_var]
           bound == ns \cup {learner.names.mrna, "gene_ids"}
       IN  IF "mrna_adata" \notin bound
           THEN /\ ns' = bound
                /\ var_names' = loaded
                /\ cols' = cols
                /\ Raise("NameError")
           ELSE IF GeneLookupError(data.gene_ids, loaded.mrna)
           THEN /\ ns' = bound \cup {"cols"}
                /\ var_names' = loaded
                /\ cols' = loaded.mrna
                /\ Raise("ValueError")
           ELSE /\ ns' = bound \cup {"cols"}
                /\ cols' = GeneSymbols(data.gene_ids, loaded.mrna)
                /\ var_names' = [loaded EXCEPT !.mrna = cols']
                /\ Advance
    /\ UNCHANGED <<data, learner, fs, metadata_df, mdata, model,
                   factor_scores, factor_scores_df, runs, log>>

\* the learner loads cll_mutations.csv; then every name gets the prefix
Mutations ==
    /\ At("mutations")
    /\ ns' = ns \cup {learner.names.mutations}
    /\ LET loaded == [var_names EXCEPT !.mutations = data.mut_var]
       IN  IF "mutations_adata" \notin ns'
           THEN var_names' = loaded /\ Raise("NameError")
           ELSE /\ var_names' =
                      [loaded EXCEPT !.mutations = PrefixAll(loaded.mutations)]
                /\ Advance
    /\ UNCHANGED <<data, learner, fs, metadata_df, cols, mdata, model,
                   factor_scores, factor_scores_df, runs, log>>

\* the learner loads cll_methylation.csv
Methylation ==
    /\ At("methylation")
    /\ ns' = ns \cup {"adata_methylation"}
    /\ var_names' = [var_names EXCEPT !.methylation = data.meth_var]
    /\ Advance
    /\ UNCHANGED <<data, learner, fs, metadata_df, cols, mdata, model,
                   factor_scores, factor_scores_df, runs, log>>

\* the learner loads cll_drugs.csv; then drug IDs are replaced by names
Drugs ==
    /\ At("drugs")
    /\ LET loaded == [var_names EXCEPT !.drugs = data.drug_var]
           bound == ns \cup {learner.names.drugs, "drug_names", "mapping",
                             "cols"}
       IN  /\ ns' = bound
           /\ IF "drugs_adata" \notin bound
              THEN /\ cols' = <<>>
                   /\ var_names' = loaded
                   /\ Raise("NameError")
              ELSE /\ cols' = DrugCols(data.drugs_txt, loaded.drugs)
                   /\ IF VarNamesLengthError(loaded.drugs, cols')
                      THEN var_names' = loaded /\ Raise("ValueError")
                      ELSE /\ var_names' = [loaded EXCEPT !.drugs = cols']
                           /\ Advance
    /\ UNCHANGED <<data, learner, fs, metadata_df, mdata, model,
                   factor_scores, factor_scores_df, runs, log>>

\* the learner builds mdata and adds the metadata (or leaves the cell empty)
Combine ==
    /\ At("combine")
    /\ IF ~learner.mdata
       THEN UNCHANGED <<ns, mdata>> /\ Advance
       ELSE LET names == UnionObs(data.obs)
                rows == Loc(metadata_df, names)
            IN  /\ ns' = ns \cup {"modality_dict", "mdata"}
                /\ IF learner.combine_metadata \notin ns
                   THEN /\ mdata' = [obs_names |-> names, obs |-> <<>>]
                        /\ Raise("NameError")
                   ELSE IF LocKeyError(metadata_df, names)
                   THEN /\ mdata' = [obs_names |-> names, obs |-> <<>>]
                        /\ Raise("KeyError")
                   ELSE IF ObsLengthError(names, rows)
                   THEN /\ mdata' = [obs_names |-> names, obs |-> <<>>]
                        /\ Raise("ValueError")
                   ELSE /\ mdata' = [obs_names |-> names, obs |-> rows]
                        /\ Advance
    /\ UNCHANGED <<data, learner, fs, metadata_df, var_names, cols, model,
                   factor_scores, factor_scores_df, runs, log>>

\* mu.tl.mofa(mdata, ..., n_factors=15, outfile="models/cll.hdf5", ...)
Train ==
    /\ At("train")
    /\ IF "mdata" \notin ns
       THEN UNCHANGED <<fs, runs, log>> /\ Raise("NameError")
       ELSE /\ runs' = runs + 1
            /\ fs' = WriteFile(fs, TrainOutfile,
                               Trained(runs', NFactors, mdata.obs_names))
            /\ log' = Append(log, Call("mofa", TrainOutfile, "train"))
            /\ Advance
    /\ UNCHANGED <<data, learner, ns, metadata_df, var_names, cols, mdata,
                   model, factor_scores, factor_scores_df>>

\* model = mfx.mofa_model("models/cll.hdf5")
LoadModel ==
    /\ At("load_model")
    /\ log' = Append(log, Call("open", LoadPath, "load_model"))
    /\ IF OpenError(fs, LoadPath)
       THEN UNCHANGED <<ns, model>> /\ Raise("OSError")
       ELSE /\ model' = fs[LoadPath]
            /\ ns' = ns \cup {"model"}
            /\ Advance
    /\ UNCHANGED <<data, learner, fs, metadata_df, var_names, cols, mdata,
                   factor_scores, factor_scores_df, runs>>

\* mfx.plot_data_overview(model), mfx.plot_r2(model),
\* mfx.plot_factors_correlation(model)
PlotCells == {"plot_data_overview", "plot_r2", "plot_factors_correlation"}

Plot(c) ==
    /\ At(c)
    /\ IF "model" \notin ns
       THEN log' = log /\ Raise("NameError")
       ELSE log' = Append(log, Call("plot", "", c)) /\ Advance
    /\ UNCHANGED <<data, learner, fs, ns, metadata_df, var_names, cols, mdata,
                   model, factor_scores, factor_scores_df, runs>>

\* exercise: train a second model with a different number of factors, save
\* it, load it with mofax and re-plot (or leave the cell empty)
SecondModel ==
    /\ At("ex_second_model")
    /\ IF learner.second = "none"
       THEN UNCHANGED <<fs, model, runs, log>>
       ELSE /\ runs' = runs + 1
            /\ fs' = WriteFile(fs, learner.second,
                               Trained(runs', learner.second_factors,
                                       mdata.obs_names))
            /\ model' = fs'[learner.second]
            /\ log' = log \o << Call("mofa", learner.second, "ex_second_model"),
                                Call("open", learner.second, "ex_second_model"),
                                Call("plot", "", "ex_second_model") >>
    /\ Advance
    /\ UNCHANGED <<data, learner, ns, metadata_df, var_names, cols, mdata,
                   factor_scores, factor_scores_df>>

\* model = mfx.mofa_model("models/cll.hdf5"); factor_scores = model.get_factors()
LoadModelAgain ==
    /\ At("load_model_again")
    /\ log' = Append(log, Call("open", ReloadPath, "load_model_again"))
    /\ IF OpenError(fs, ReloadPath)
       THEN UNCHANGED <<ns, model, factor_scores, factor_scores_df>> /\ Raise("OSError")
       ELSE /\ model' = fs[ReloadPath]
            /\ factor_scores_df' = factor_scores_df
            /\ factor_scores' = GetFactors(model', data.dropped)
            /\ ns' = ns \cup {"model", "factor_scores"}
            /\ Advance
    /\ UNCHANGED <<data, learner, fs, metadata_df, var_names, cols, mdata,
                   runs>>

\* factor_scores_df = pd.DataFrame(factor_scores, index=..., columns=...)
FactorScoresDf ==
    /\ At("factor_scores_df")
    /\ IF {"model", "factor_scores"} \subseteq ns
       THEN LET index == GetCells(model)
                columns == FactorColumns(factor_scores.cols)
            IN  IF FrameShapeError(factor_scores, index, columns)
                THEN /\ UNCHANGED <<ns, factor_scores_df>>
                     /\ Raise("ValueError")
                ELSE /\ factor_scores_df' =
                           [index |-> index, columns |-> columns,
                            rows |-> factor_scores.rows,
                            cols |-> factor_scores.cols]
                     /\ ns' = ns \cup {"factor_scores_df"}
                     /\ Advance
       ELSE UNCHANGED <<ns, factor_scores_df>> /\ Raise("NameError")
    /\ UNCHANGED <<data, learner, fs, metadata_df, var_names, cols, mdata,
                   model, factor_scores, runs, log>>

Next ==
    \/ Imports
    \/ \E c \in DOMAIN BindCells : Bind(c)
    \/ \E c \in FreeExercises : Exercise(c)
    \/ Metadata
    \/ GeneSymbolsCell
    \/ Mutations
    \/ Methylation
    \/ Drugs
    \/ Combine
    \/ Train
    \/ LoadModel
    \/ \E c \in PlotCells : Plot(c)
    \/ SecondModel
    \/ LoadModelAgain
    \/ FactorScoresDf

Spec == Init /\ [][Next]_vars

\* ------------------------------------------- specifications per input
\* Each specification runs the same notebook; it differs in the files it
\* enumerates.  Where one file is enumerated the others are the default
\* ones and the learner is CodeLearner, so that the run reaches the cell.

GeneRowSet == {GeneRow(g, y) : g \in GeneIdSet, y \in {SymA, SymB}}
DrugRowSet == {DrugRow(d, n) : d \in DrugIdSet, n \in DrugNameSet}
MetaValueRows(s) ==
    {MetaRow(s, g, d, i, a) :
        g \in {"m", "f", "NaN"}, d \in {"False", "True", "NaN"},
        i \in {"U", "M", "NaN"}, a \in {"70", "NaN"}}
SampleSeq == <<"s1", "s2", "s3">>
OneSampleObs ==
    [mrna |-> <<"s1">>, methylation |-> <<"s1">>, mutations |-> <<"s1">>,
     drugs |-> <<"s1">>]

\* cll_metadata.csv with every combination of values, samples s1, s2, ...
MetaTables ==
    {t \in SeqsUpTo(UNION {MetaValueRows(SampleSeq[i]) : i \in 1..MetaRows},
                    MetaRows) :
        \A i \in 1..Len(t) : t[i].idx = SampleSeq[i]}

MetaData ==
    {[DefaultData EXCEPT !.meta = t, !.obs = OneSampleObs] : t \in MetaTables}

\* cll_gene_ids.csv and the columns of cll_mrna.csv
MrnaData ==
    {[DefaultData EXCEPT !.gene_ids = g, !.mrna_var = v] :
        g \in SeqsUpTo(GeneRowSet, GeneRows),
        v \in SeqsUpTo(GeneIdSet, MaxVars)}

\* the columns of cll_mutations.csv and of cll_mrna.csv
MutData ==
    {[DefaultData EXCEPT !.mut_var = m, !.mrna_var = v] :
        m \in SeqsUpTo(MutationSet, MaxVars),
        v \in SeqsUpTo({E1, E2, E3}, MaxVars)}

\* drugs.txt (its index, the drug IDs, without repeats) and the columns of
\* cll_drugs.csv
DrugTables ==
    {t \in SeqsUpTo(DrugRowSet, DrugRows) :
        \A i, j \in 1..Len(t) : t[i].id = t[j].id => i = j}

DrugData ==
    {[DefaultData EXCEPT !.drugs_txt = t, !.drug_var = v] :
        t \in DrugTables, v \in SeqsUpTo(DrugVarSet, MaxVars)}

\* the index of cll_metadata.csv (repeats allowed) and the samples of
\* cll_mrna.csv
IndexRowSet ==
    {MetaRow(s, "m", "False", "U", "70") : s \in SampleSet}
        \cup {MetaRow("s1", "m", "False", "U", "55")}

ObsData ==
    {[DefaultData EXCEPT !.meta = t,
                         !.obs = [OneSampleObs EXCEPT !.mrna = o]] :
        t \in SeqsUpTo(IndexRowSet, ObsRows),
        o \in SeqsUpTo(SampleSet, MaxObs)}

InitMeta == InitWith(MetaData, {CodeLearner})
SpecMeta == InitMeta /\ [][Next]_vars
InitMrna == InitWith(MrnaData, {CodeLearner})
SpecMrna == InitMrna /\ [][Next]_vars
InitMut == InitWith(MutData, {CodeLearner})
SpecMut == InitMut /\ [][Next]_vars
InitDrugs == InitWith(DrugData, {CodeLearner})
SpecDrugs == InitDrugs /\ [][Next]_vars
InitObs == InitWith(ObsData, {CodeLearner})
SpecObs == InitObs /\ [][Next]_vars

\* the samples of cll_mrna.csv and the number of factors the training drops
FactorData ==
    {[DefaultData EXCEPT !.obs = [OneSampleObs EXCEPT !.mrna = o],
                         !.dropped = d] :
        o \in SeqsUpTo(SampleSet, MaxObs), d \in 0..MaxDropped}

\* learners who skip the second model, save it over the first or save it
\* under a different name, with fewer or more factors than the first
FactorLearners ==
    {[CodeLearner EXCEPT !.second = p, !.second_factors = k] :
        p \in {"none", TrainOutfile, OtherPath},
        k \in {3, NFactors - 5, NFactors + 5}}

InitFactors == InitWith(FactorData, FactorLearners)
SpecFactors == InitFactors /\ [][Next]_vars

\* ---------------------------------------------------------------- claims
ClaimPath == "models/cll.hdf5"
PrewrittenLoads == {"load_model", "load_model_again"}
Finished == pc = Len(Order) + 1 /\ status = "ok"

\* C1: the training call writes models/cll.hdf5 and the file is opened only
\* afterwards: every call of mofa_model on models/cll.hdf5 comes after a
\* completed mu.tl.mofa call whose outfile is that path, and the pre-written
\* loads open exactly the path the training cell wrote.
C1_OpenOnlyAfterTraining ==
    \A i \in 1..Len(log) :
        /\ (log[i].op = "open" /\ log[i].path = ClaimPath) =>
               \E j \in 1..(i - 1) :
                   log[j].op = "mofa" /\ log[j].path = ClaimPath
        /\ (log[i].op = "open" /\ log[i].cell \in PrewrittenLoads) =>
               /\ log[i].path = ClaimPath
               /\ \E j \in 1..(i - 1) :
                      /\ log[j].op = "mofa"
                      /\ log[j].cell = "train"
                      /\ log[j].path = log[i].path

\* C1 witness: a whole run in which both pre-written loads opened the file
C1_Witness ==
    /\ Finished
    /\ \E i, j \in 1..Len(log) :
          /\ log[i] = Call("open", ClaimPath, "load_model")
          /\ log[j] = Call("open", ClaimPath, "load_model_again")

\* C2: the stages follow each other: no load, plot or inspection of the
\* model happens before the training cell's call, the training call happens
\* only once mdata has been built by the combine cell, and the objects are
\* built only after the cells that read the files.
C2_LinearStages ==
    /\ \A i \in 1..Len(log) :
          log[i].op \in {"open", "plot"} =>
              \E j \in 1..(i - 1) : log[j] = Call("mofa", TrainOutfile, "train")
    /\ (\E i \in 1..Len(log) : log[i].op = "mofa") =>
          /\ "mdata" \in ns
          /\ Past("combine")
          /\ mdata.obs_names = UnionObs(data.obs)
    /\ "model" \in ns => runs >= 1
    /\ "mdata" \in ns => {"data", "adata"} \subseteq ns
    /\ Len(SelectSeq(log, LAMBDA e : e.cell = "train")) <= 1

\* C2 witness: a plotting call has been made on the loaded model
C2_Witness ==
    /\ status = "ok"
    /\ Past("plot_r2")
    /\ \E i \in 1..Len(log) : log[i] = Call("plot", "", "plot_r2")

\* a gene of the loaded transcriptome without exactly one row in the table
GeneUnmapped ==
    \E i \in 1..Len(data.mrna_var) :
        Cardinality({j \in 1..Len(data.gene_ids) :
                        data.gene_ids[j].GENEID = data.mrna_var[i]}) # 1

\* a drug variable no drug ID of drugs.txt is part of
DrugUnmatched ==
    \E i \in 1..Len(data.drug_var) :
        \A j \in 1..Len(data.drugs_txt) :
            ~Contains(data.drug_var[i], data.drugs_txt[j].id)

\* C3: no pre-written cell handles an error.  A library error inside a cell
\* (a gene without exactly one row, a drug variable that matches no ID and so
\* a length mismatch, a name that is not bound) leaves the run stopped in
\* that cell with that exception, the cell's later statements have not run
\* (var_names still holds the loaded names, no default was put in), and no
\* step is ever taken after an exception (no retry, no later cell).
C3_ErrorsPropagate ==
    [][ /\ status = "ok"
        /\ status' # "ok" => pc' = pc
        /\ (At("gene_symbols") /\ learner.names.mrna = "mrna_adata"
                /\ GeneUnmapped) =>
               /\ status' = "ValueError"
               /\ var_names'.mrna = data.mrna_var
               /\ cols' = data.mrna_var
        /\ (At("gene_symbols") /\ learner.names.mrna # "mrna_adata") =>
               /\ status' = "NameError"
               /\ var_names'.mrna = data.mrna_var
               /\ cols' = cols
        /\ (At("drugs") /\ learner.names.drugs = "drugs_adata"
                /\ DrugUnmatched) =>
               /\ status' = "ValueError"
               /\ var_names'.drugs = data.drug_var
               /\ Len(cols') < Len(data.drug_var)
        /\ (At("mutations") /\ learner.names.mutations # "mutations_adata") =>
               /\ status' = "NameError"
               /\ var_names'.mutations = data.mut_var
      ]_vars

\* C3 witness: the drug cell has raised on the length mismatch
C3_Witness ==
    /\ status = "ValueError"
    /\ pc = Index("drugs")
    /\ var_names.drugs = data.drug_var
    /\ Len(cols) < Len(data.drug_var)

\* C8 (as stated; the code contradicts it): with the learner's objects bound to exactly the names the comments
\* state, every name a pre-written cell reads is bound when the cell runs:
\* no pre-written cell stops with a NameError.
C8_CommentNamesAreBound ==
    (learner.names = CommentNames
        /\ pc \in {Index("metadata"), Index("gene_symbols"),
                   Index("mutations"), Index("drugs")})
    => status # "NameError"

StartsWithM(t) == Len(t) >= 2 /\ SubSeq(t, 1, 2) = <<"m", "_">>

\* what the renaming cell does to the names themselves: same count, same
\* order, each "m_" followed by the original, distinct names stay distinct
MutationsPrefixed ==
    /\ Len(var_names.mutations) = Len(data.mut_var)
    /\ \A i \in 1..Len(data.mut_var) :
          var_names.mutations[i] = <<"m", "_">> \o data.mut_var[i]
    /\ \A i, j \in 1..Len(data.mut_var) :
          data.mut_var[i] # data.mut_var[j] =>
              var_names.mutations[i] # var_names.mutations[j]

Occurrences(k, v) ==
    {a \in 1..(Len(k) - Len(v) + 1) : SubSeq(k, a, a + Len(v) - 1) = v}

\* rows of drugs.txt whose ID is part of the name k
IdsIn(k) ==
    {j \in 1..Len(data.drugs_txt) : Occurrences(k, data.drugs_txt[j].id) # {}}

C6_GeneIdsBecomeSymbols ==
    Past("gene_symbols") =>
        /\ Len(var_names.mrna) = Len(data.mrna_var)
        /\ \A i \in 1..Len(data.mrna_var) :
              \E j \in 1..Len(data.gene_ids) :
                  /\ data.gene_ids[j].GENEID = data.mrna_var[i]
                  /\ data.gene_ids[j].SYMBOL = var_names.mrna[i]
                  /\ \A j2 \in 1..Len(data.gene_ids) :
                        data.gene_ids[j2].GENEID = data.mrna_var[i] => j2 = j

\* C6 witness: two genes converted to different symbols
C6_Witness ==
    /\ Past("gene_symbols")
    /\ Len(var_names.mrna) >= 2
    /\ var_names.mrna[1] # var_names.mrna[2]
    /\ data.mrna_var[1] # data.mrna_var[2]

\* C7: after the metadata cell the column Gender is named Sex, Sex is 0
\* where it was "m" and 1 where it was "f", died is 0 where it was False and
\* 1 where it was True, IGHV is 0 where it was "U" and 1 where it was "M",
\* and every missing value of every column is -1; rows and other values are
\* as loaded.
C7_MetadataIsNumeric ==
    Past("metadata") =>
        /\ Len(metadata_df) = Len(data.meta)
        /\ \A i \in 1..Len(data.meta) :
              LET old == data.meta[i].row
                  new == metadata_df[i].row
              IN  /\ metadata_df[i].idx = data.meta[i].idx
                  /\ DOMAIN new = (DOMAIN old \ {"Gender"}) \cup {"Sex"}
                  /\ old.Gender = "m" => new.Sex = "0"
                  /\ old.Gender = "f" => new.Sex = "1"
                  /\ old.died = "False" => new.died = "0"
                  /\ old.died = "True" => new.died = "1"
                  /\ old.IGHV = "U" => new.IGHV = "0"
                  /\ old.IGHV = "M" => new.IGHV = "1"
                  /\ old.Gender = "NaN" => new.Sex = "-1"
                  /\ \A c \in DOMAIN old \ {"Gender"} :
                        /\ old[c] = "NaN" => new[c] = "-1"
                        /\ (c = "Age4Main" /\ old[c] # "NaN") => new[c] = old[c]
                  /\ \A c \in DOMAIN new : new[c] # "NaN"

\* C7 witness: a converted row of a woman who died, IGHV status unknown
C7_Witness ==
    /\ Past("metadata")
    /\ \E i \in 1..Len(data.meta) :
          /\ data.meta[i].row.Gender = "f"
          /\ data.meta[i].row.died = "True"
          /\ data.meta[i].row.IGHV = "NaN"
          /\ metadata_df[i].row.IGHV = "-1"

\* number of rows of the metadata DataFrame whose index label is sample
IndexCount(sample) ==
    Cardinality({j \in 1..Len(metadata_df) : metadata_df[j].idx = sample})

\* one metadata row per observation, in the order of mdata.obs_names, each
\* the metadata row of that sample
OneRowPerObservation ==
    /\ Len(mdata.obs) = Len(mdata.obs_names)
    /\ \A i \in 1..Len(mdata.obs_names) :
          /\ mdata.obs[i].idx = mdata.obs_names[i]
          /\ \E j \in 1..Len(metadata_df) : metadata_df[j] = mdata.obs[i]

\* C9 as stated: once mdata.obs = metadata.loc[mdata.obs_names] has been
\* executed, mdata has exactly one metadata row per observation, in order,
\* each the row of that sample, whenever every observation name of mdata is
\* in the metadata index.
C9_Original ==
    ("mdata" \in ns
        /\ \A i \in 1..Len(mdata.obs_names) :
              IndexCount(mdata.obs_names[i]) >= 1)
    => (Past("combine") /\ OneRowPerObservation)

\* C9 amended: the same whenever every observation name of mdata is in the
\* metadata index exactly once (the metadata may have more rows than mdata
\* has observations); a name that is missing or that several metadata rows
\* carry makes the statement raise instead, and whenever the statement
\* completes the rows are one per observation.
C9_OneRowPerObservation ==
    /\ ("mdata" \in ns
           /\ \A i \in 1..Len(mdata.obs_names) :
                 IndexCount(mdata.obs_names[i]) = 1)
       => (Past("combine") /\ OneRowPerObservation)
    /\ ("mdata" \in ns /\ Past("combine")) =>
           /\ OneRowPerObservation
           /\ \A i \in 1..Len(mdata.obs_names) :
                 IndexCount(mdata.obs_names[i]) = 1
    /\ (pc = Index("combine") /\ status = "KeyError") =>
           \E i \in 1..Len(mdata.obs_names) :
               IndexCount(mdata.obs_names[i]) = 0
    /\ (pc = Index("combine") /\ status = "ValueError") =>
           \E i \in 1..Len(mdata.obs_names) :
               IndexCount(mdata.obs_names[i]) > 1

\* C9 witness: metadata added for two observations, from a table with more
\* rows than observations and in another order
C9_Witness ==
    /\ "mdata" \in ns
    /\ Past("combine")
    /\ Len(mdata.obs) >= 2
    /\ Len(metadata_df) > Len(mdata.obs_names)
    /\ metadata_df[1].idx # mdata.obs_names[1]

\* C10: if the second training call writes to another path than
\* models/cll.hdf5, the first artifact stays and the later open of
\* models/cll.hdf5 yields the first model (15 factors); if it writes to
\* models/cll.hdf5, the first artifact is replaced and the later open yields
\* the model trained last.
C10_SecondModelFile ==
    /\ (Past("ex_second_model") /\ learner.second # ClaimPath) =>
           /\ fs[ClaimPath].run = 1
           /\ fs[ClaimPath].n_factors = 15
    /\ (Past("ex_second_model") /\ learner.second = ClaimPath) =>
           /\ fs[ClaimPath].run = 2
           /\ fs[ClaimPath].n_factors = learner.second_factors
    /\ (Past("ex_second_model") /\ learner.second \notin {ClaimPath, "none"}) =>
           /\ fs[learner.second].run = 2
           /\ fs[learner.second].n_factors = learner.second_factors
    /\ Past("load_model_again") =>
           /\ model = fs[ClaimPath]
           /\ model.run = (IF learner.second = ClaimPath THEN 2 ELSE 1)

\* C10 witness: the second model was saved under a different name and the
\* later open of models/cll.hdf5 gave the first model
C10_Witness ==
    /\ Finished
    /\ learner.second # ClaimPath
    /\ learner.second # "none"
    /\ fs[learner.second].run = 2
    /\ model.run = 1

\* the value of a decimal digit character, -1 for any other character
DigitValue(c) ==
    IF \E d \in 0..9 : DigitChars[d + 1] = c
    THEN CHOOSE d \in 0..9 : DigitChars[d + 1] = c
    ELSE -1

\* the number a string of decimal digits denotes
RECURSIVE ParseNat(_)
ParseNat(t) ==
    IF Len(t) = 0 THEN 0
    ELSE 10 * ParseNat(SubSeq(t, 1, Len(t) - 1)) + DigitValue(t[Len(t)])

\* label is "Factor " followed by the decimal numeral of i without a
\* leading zero
IsFactorLabel(label, i) ==
    /\ Len(label) > Len(FactorWord)
    /\ SubSeq(label, 1, Len(FactorWord)) = FactorWord
    /\ LET numeral == SubSeq(label, Len(FactorWord) + 1, Len(label))
       IN  /\ \A j \in 1..Len(numeral) : DigitValue(numeral[j]) >= 0
           /\ numeral[1] # "0"
           /\ ParseNat(numeral) = i

\* C11: once the factor_scores_df cell has run, the frame is n_samples x
\* n_factors: its index is the sample identifiers of the loaded model, one
\* row each; its columns are "Factor 1" to "Factor K", K the number of
\* columns of the factor matrix, none of them "Factor 0"; and the cell never
\* stops on a mismatch between the labels and the shape of the matrix.
C11_FactorScoresFrame ==
    /\ Past("factor_scores_df") =>
           /\ "factor_scores_df" \in ns
           /\ factor_scores_df.rows = Len(model.cells)
           /\ factor_scores_df.index = model.cells
           /\ factor_scores_df.cols = factor_scores.cols
           /\ Len(factor_scores_df.columns) = factor_scores.cols
           /\ \A i \in 1..Len(factor_scores_df.columns) :
                  /\ IsFactorLabel(factor_scores_df.columns[i], i)
                  /\ factor_scores_df.columns[i] # FactorWord \o <<"0">>
    /\ pc = Index("factor_scores_df") => status # "ValueError"

\* a frame was built for a model with two samples whose training dropped a
\* factor and kept at least ten, so that labels have two digits
C11_Witness ==
    /\ Past("factor_scores_df")
    /\ status = "ok"
    /\ Len(factor_scores_df.index) = 2
    /\ factor_scores_df.cols >= 10
    /\ factor_scores_df.cols < model.n_factors
    /\ factor_scores_df.columns[10] = FactorWord \o <<"1", "0">>

====
